---- MODULE Spec2Model ----
(***************************************************************************)
(* A model of the timeline and paging engine of quran-reels-maker:         *)
(*   - generate_reel's unit sequencer (src/core/video_generator.py) as it  *)
(*     is driven by cmd_generate (src/main.py);                            *)
(*   - compute_page_boundaries, split_translation_by_pages and             *)
(*     create_accumulating_text_lines with its make_frame callback         *)
(*     (src/core/text_renderer.py).                                        *)
(*   - cmd_auto's generate / approve / upload loop (src/main.py);          *)
(*   - _execute_with_retry (src/youtube/uploader.py);                      *)
(*   - PILTextRenderer.render_text with the module-level renderer and its  *)
(*     cache (src/core/text_renderer.py).                                  *)
(*                                                                         *)
(* A string is a sequence of tokens: 0 is one space, k >= 1 is a word.     *)
(* Reel times are integers in centiseconds (0.1 s = 10, 0.48 s = 48);      *)
(* page times are integers in milliseconds (start_ms / 1000.0 s is kept as *)
(* start_ms).  Both scalings are exact for the constants of the program.   *)
(***************************************************************************)
EXTENDS Integers, Sequences, FiniteSets, TLC

VARIABLES
    \* ---- generate_reel / cmd_generate --------------------------------
    audio_len,        \* ayah -> length of the verse's audio file (cs)
    max_ayah,         \* VERSE_COUNTS.get(surah, end_ayah)
    enable_intro,     \* ENABLE_INTRO_FRAME
    start_ayah,       \* validated start_ayah
    requested_end,    \* validated end_ayah as passed by the caller
    end_ayah,         \* the local end_ayah (reassigned at lines 162, 192)
    ayah_data,        \* the unit list
    current_time,
    current_ayah,
    total_duration,   \* Unset until line 161
    pc,               \* position inside generate_reel / cmd_generate
    fetch_log,        \* every call of fetch_single_ayah, see Fetched / Raised
    rejected,         \* the unit rejected by the break of line 152, or 0
    uncapped,         \* total_duration as the hard cap (line 195) found it
    fetch_failed,     \* a call of fetch_single_ayah has raised
    cmd_result,       \* what cmd_generate returns
    cancel_requested, \* the caller has asked the sequencer to stop
    auto_selected,    \* not args.surah: the scheduler chose the verses
    generated,        \* generate_reel has returned its tuple
    history,          \* the records written by record_reel_history
    progress,         \* the verse advance_progress stored, 0 if none
    \* ---- compute_page_boundaries -------------------------------------
    sorted_segments,
    word_count,
    unit_duration,    \* total_duration argument (ms)
    page_size,
    pages,            \* the returned list
    pages_called,     \* compute_page_boundaries has returned
    \* ---- split_translation_by_pages ----------------------------------
    translation,      \* the translation string
    trans_segments,   \* the returned list
    split_called,     \* split_translation_by_pages has returned
    \* ---- create_accumulating_text_lines ------------------------------
    segments,         \* the timing entries as passed, in any order
    words,            \* the word list [{position, text}]
    states,           \* the TextState list
    page_transitions, \* the times where the page changes
    text_clip,        \* which clip create_accumulating_text_lines returned
    static_clip,      \* the clip of create_text_clip, see NoClip
    frame,            \* the last call of make_frame, see NoFrame
    \* ---- cmd_auto ----------------------------------------------------
    attempt,          \* the loop counter of cmd_auto
    auto_pc,          \* position inside cmd_auto
    approval_needed,  \* telegram_configured() and APPROVAL_REQUIRED
    gen_result,       \* the video of the last cmd_generate call, 0 if none
    approvals,        \* video -> the reply wait_for_approval returned
    upload_calls,     \* the videos passed to upload_video, in order
    deleted,          \* the videos os.remove has deleted
    auto_result,      \* what cmd_auto returns
    \* ---- _execute_with_retry ----------------------------------------
    upload_pc,        \* position inside _execute_with_retry
    retry,            \* the retry counter
    response,         \* None until next_chunk hands out the response
    chunks,           \* the calls of next_chunk that reported progress
    failures,         \* the retriable failures of next_chunk so far
    last_error,       \* what the last call of next_chunk raised, see NoError
    upload_error,     \* the message of the YouTubeUploadError raised, or ""
    \* ---- PILTextRenderer --------------------------------------------
    _renderer,        \* the module-level renderer: None or its style
    _cache,           \* the renderer's cache: cache_key -> buffer
    rendered          \* the last call of render_text, see NotRendered

reel_vars == <<audio_len, max_ayah, enable_intro, start_ayah, requested_end,
               end_ayah, ayah_data, current_time, current_ayah, total_duration,
               pc, fetch_log, rejected, uncapped, fetch_failed, cmd_result,
               cancel_requested, auto_selected, generated, history, progress>>
cmd_vars == <<cancel_requested, auto_selected, generated, history, progress>>
page_vars == <<sorted_segments, word_count, unit_duration, page_size, pages,
               pages_called>>
split_vars == <<translation, trans_segments, split_called>>
timeline_vars == <<segments, words, states, page_transitions, text_clip,
                   static_clip, frame>>
auto_vars == <<attempt, auto_pc, approval_needed, gen_result, approvals,
               upload_calls, deleted, auto_result>>
upload_vars == <<upload_pc, retry, response, chunks, failures, last_error,
                 upload_error>>
render_vars == <<_renderer, _cache, rendered>>
aux_vars == <<auto_vars, upload_vars, render_vars>>
vars == <<reel_vars, page_vars, split_vars, timeline_vars, aux_vars>>

Unset == "unset"

\* create_accumulating_text_lines has not returned
NotBuilt == "not built"

\* text_renderer.py 855-857: the transparent frame; a rendered frame is
\* known by the text it shows (rendered_frames is keyed by the text)
EmptyFrame == [kind |-> "empty", text |-> <<>>]

\* make_frame has not been called
NoFrame ==
    [made |-> FALSE, t |-> 0, frame_rgba |-> EmptyFrame, blended |-> FALSE,
     trans_t |-> 0, blend |-> 0, out_frame |-> EmptyFrame,
     in_frame |-> EmptyFrame]

\* create_text_clip has not been called
NoClip == [made |-> FALSE, text |-> <<>>, duration |-> 0]

\* create_accumulating_text_lines is not running
TimelineIdle ==
    /\ segments = <<>>
    /\ words = <<>>
    /\ states = <<>>
    /\ page_transitions = <<>>
    /\ text_clip = NotBuilt
    /\ static_clip = NoClip
    /\ frame = NoFrame

\* cmd_generate's return value: not returned yet, None, or the result dict
Pending == [kind |-> "pending"]
None == [kind |-> "None"]

\* cmd_auto is not running
AutoIdle ==
    /\ attempt = 0
    /\ auto_pc = "idle"
    /\ approval_needed = FALSE
    /\ gen_result = 0
    /\ approvals = <<>>
    /\ upload_calls = <<>>
    /\ deleted = {}
    /\ auto_result = Pending

\* next_chunk has raised nothing
NoError == [kind |-> "none", status |-> 0]

\* _execute_with_retry is not running
UploadIdle ==
    /\ upload_pc = "idle"
    /\ retry = 0
    /\ response = None
    /\ chunks = 0
    /\ failures = 0
    /\ last_error = NoError
    /\ upload_error = ""

\* render_text has not been called
NotRendered ==
    [made |-> FALSE, text |-> <<>>, font_size |-> 0, color |-> "",
     max_width |-> 0, words_per_line |-> 1, is_arabic |-> FALSE,
     style |-> 0, buffer |-> <<>>]

\* text_renderer.py 240-241: no renderer yet, nothing cached
RenderIdle ==
    /\ _renderer = None
    /\ _cache = {}
    /\ rendered = NotRendered

AuxIdle == AutoIdle /\ UploadIdle /\ RenderIdle

Min(a, b) == IF a <= b THEN a ELSE b
Max(a, b) == IF a >= b THEN a ELSE b
Last(s) == s[Len(s)]

RECURSIVE SumLen(_, _, _)
SumLen(f, lo, hi) == IF lo > hi THEN 0 ELSE f[lo] + SumLen(f, lo + 1, hi)

(***************************************************************************)
(* Bounds of the model.                                                    *)
(***************************************************************************)
MaxVerseCount == 3          \* verses of the modelled surah: 1..MaxVerseCount

\* Audio lengths (cs) a verse may have.  With the 0.1 s lead, the 0.48 s
\* padding and the 0.5 s trailing buffer: 2892 alone gives exactly 30 s,
\* 5792 alone exactly 59 s, 500 then 5244 exactly 59 s, 6000 alone is over
\* the maximum.
AudioDurations == {500, 2892, 5244, 5792, 6000}

(***************************************************************************)
(* Program constants.                                                      *)
(***************************************************************************)
Centi(seconds) == 100 * seconds

MAX_REEL_DURATION_SECONDS == 59
MIN_REEL_DURATION_SECONDS == 30
INTRO_DURATION == 3
AYAH_PADDING_SECONDS == 48     \* 0.48 s, in cs
InitialTime == 10              \* current_time = 0.1, in cs
TrailingBuffer == 50           \* the "+ 0.5" of lines 145, 161, 172, 190
ProbeFallback == 500           \* the 5.0 of line 86, in cs

max_content_duration ==
    Centi(MAX_REEL_DURATION_SECONDS)
        - (IF enable_intro THEN Centi(INTRO_DURATION) ELSE 0)

(***************************************************************************)
(* get_audio_duration_moviepy (lines 76-86): the clip's duration, or 5.0   *)
(* when the clip cannot be read.  The set of values a call may return.     *)
(***************************************************************************)
get_audio_duration_moviepy(ayah) == {audio_len[ayah], ProbeFallback}

(***************************************************************************)
(* fetch_single_ayah (core.ayah_fetcher): the unit whose reel start time   *)
(* is `time` and whose probed audio duration is `duration`;                *)
(* segment_end = start + audio duration + inter-unit padding.              *)
(***************************************************************************)
fetch_single_ayah(ayah, time, duration) ==
    [ayah           |-> ayah,
     start_time     |-> time,
     audio_duration |-> duration,
     segment_end    |-> time + duration + AYAH_PADDING_SECONDS]

\* entries of fetch_log
Fetched(data) ==
    [ayah |-> data.ayah, start_time |-> data.start_time, raised |-> FALSE,
     segment_end |-> data.segment_end]
Raised(ayah, time) ==
    [ayah |-> ayah, start_time |-> time, raised |-> TRUE, segment_end |-> 0]

projected_duration(data) == data.segment_end + TrailingBuffer

(***************************************************************************)
(* generate_reel, STEP 1: the loop over the requested ayahs.               *)
(***************************************************************************)
\* line 140
AccumulateGuard == current_ayah <= end_ayah

\* Mutant of RejectRequested: compares with the Shorts limit itself and
\* forgets the time reserved for the intro frame.
RejectRequestedIgnoringIntro(data) ==
    ayah_data # <<>>
        /\ projected_duration(data) > Centi(MAX_REEL_DURATION_SECONDS)

\* line 147: the per-unit cap check of the first loop
RejectRequested(data) ==
    ayah_data # <<>> /\ projected_duration(data) > max_content_duration

\* Mutant of AfterAccumulate: line 162 left out, end_ayah stays as requested.
AfterAccumulateKeepsEnd(time, units) ==
    /\ total_duration' = time + TrailingBuffer
    /\ end_ayah' = end_ayah

\* lines 161-162
AfterAccumulate(time, units) ==
    /\ total_duration' = time + TrailingBuffer
    /\ end_ayah' = Last(units).ayah

Init ==
    /\ max_ayah \in 1..MaxVerseCount
    /\ audio_len \in [1..max_ayah -> AudioDurations]
    /\ enable_intro \in BOOLEAN
    /\ start_ayah \in 1..max_ayah
    /\ requested_end \in start_ayah..max_ayah
    /\ end_ayah = requested_end
    /\ ayah_data = <<>>
    /\ current_time = InitialTime
    /\ current_ayah = start_ayah
    /\ total_duration = Unset
    /\ pc = "accumulating"
    /\ fetch_log = <<>>
    /\ rejected = 0
    /\ uncapped = Unset
    /\ fetch_failed = FALSE
    /\ cmd_result = Pending
    /\ cancel_requested = FALSE
    /\ auto_selected \in BOOLEAN
    /\ generated = FALSE
    /\ history = <<>>
    /\ progress = 0
    /\ sorted_segments = <<>>
    /\ word_count = 0
    /\ unit_duration = 0
    /\ page_size = 1
    /\ pages = <<>>
    /\ pages_called = FALSE
    /\ translation = <<>>
    /\ trans_segments = <<>>
    /\ split_called = FALSE
    /\ TimelineIdle
    /\ AuxIdle

\* lines 140-159, fetch succeeded
FetchRequested ==
    /\ pc = "accumulating"
    /\ AccumulateGuard
    /\ \E duration \in get_audio_duration_moviepy(current_ayah) :
       LET data == fetch_single_ayah(current_ayah, current_time, duration) IN
       /\ fetch_log' = Append(fetch_log, Fetched(data))
       /\ IF RejectRequested(data)
          THEN \* break, then lines 161-162
               /\ rejected' = current_ayah
               /\ AfterAccumulate(current_time, ayah_data)
               /\ pc' = "extending"
               /\ UNCHANGED <<ayah_data, current_time, current_ayah>>
          ELSE /\ ayah_data' = Append(ayah_data, data)
               /\ current_time' = data.segment_end
               /\ current_ayah' = current_ayah + 1
               /\ UNCHANGED <<rejected, total_duration, end_ayah, pc>>
    /\ UNCHANGED <<audio_len, max_ayah, enable_intro, start_ayah, requested_end,
                   uncapped, fetch_failed, cmd_result, page_vars, split_vars, timeline_vars,
                   cmd_vars, aux_vars>>

\* line 140 false, then lines 161-162
FinishRequested ==
    /\ pc = "accumulating"
    /\ ~AccumulateGuard
    /\ AfterAccumulate(current_time, ayah_data)
    /\ pc' = "extending"
    /\ UNCHANGED <<audio_len, max_ayah, enable_intro, start_ayah, requested_end,
                   ayah_data, current_time, current_ayah, fetch_log, rejected,
                   uncapped, fetch_failed, cmd_result, page_vars, split_vars, timeline_vars,
                   cmd_vars, aux_vars>>

(***************************************************************************)
(* generate_reel, STEP 2: extension below the minimum duration.            *)
(***************************************************************************)
\* Mutant of ExtendGuard: the comparison with the minimum is flipped.
ExtendGuardFlipped ==
    /\ total_duration > Centi(MIN_REEL_DURATION_SECONDS)
    /\ current_ayah <= max_ayah
    /\ total_duration < max_content_duration

\* Mutant of ExtendGuard: the minimum is not consulted.
ExtendGuardNoMinimum ==
    /\ current_ayah <= max_ayah
    /\ total_duration < max_content_duration

\* lines 165-167
ExtendGuard ==
    /\ total_duration < Centi(MIN_REEL_DURATION_SECONDS)
    /\ current_ayah <= max_ayah
    /\ total_duration < max_content_duration

\* Mutant of RejectExtended: the second loop appends whatever it fetched.
RejectExtendedNever(data) == FALSE

\* line 174: the per-unit cap check of the second loop
RejectExtended(data) == projected_duration(data) > max_content_duration

\* lines 168-192, fetch succeeded
ExtendFetch ==
    /\ pc = "extending"
    /\ ExtendGuard
    /\ \E duration \in get_audio_duration_moviepy(current_ayah) :
       LET data == fetch_single_ayah(current_ayah, current_time, duration) IN
       /\ fetch_log' = Append(fetch_log, Fetched(data))
       /\ IF RejectExtended(data)
          THEN \* break
               /\ pc' = "capping"
               /\ UNCHANGED <<ayah_data, current_time, current_ayah,
                              total_duration, end_ayah>>
          ELSE /\ ayah_data' = Append(ayah_data, data)
               /\ current_time' = data.segment_end
               /\ total_duration' = data.segment_end + TrailingBuffer
               /\ current_ayah' = current_ayah + 1
               /\ end_ayah' = (current_ayah + 1) - 1
               /\ pc' = pc
    /\ UNCHANGED <<audio_len, max_ayah, enable_intro, start_ayah, requested_end,
                   rejected, uncapped, fetch_failed, cmd_result, page_vars, split_vars, timeline_vars,
                   cmd_vars, aux_vars>>

\* lines 165-167 false
FinishExtend ==
    /\ pc = "extending"
    /\ ~ExtendGuard
    /\ pc' = "capping"
    /\ UNCHANGED <<audio_len, max_ayah, enable_intro, start_ayah, requested_end,
                   end_ayah, ayah_data, current_time, current_ayah,
                   total_duration, fetch_log, rejected, uncapped, fetch_failed,
                   cmd_result, page_vars, split_vars, timeline_vars,
                   cmd_vars, aux_vars>>

(***************************************************************************)
(* A call of fetch_single_ayah raises.  Neither loop catches anything, so  *)
(* the exception leaves generate_reel and reaches cmd_generate's handler   *)
(* (main.py 126-129), which returns None.                                  *)
(***************************************************************************)
\* Mutant of OnFetchError: the failure is swallowed and the loop goes on
\* with the next index.
SkipFailedUnit ==
    /\ current_ayah' = current_ayah + 1
    /\ UNCHANGED <<pc, cmd_result, ayah_data, current_time, total_duration,
                   end_ayah>>

OnFetchError ==
    /\ pc' = "done"
    /\ cmd_result' = None
    /\ UNCHANGED <<ayah_data, current_time, current_ayah, total_duration,
                   end_ayah>>

FetchRaises ==
    /\ \/ pc = "accumulating" /\ AccumulateGuard
       \/ pc = "extending" /\ ExtendGuard
    /\ fetch_log' = Append(fetch_log, Raised(current_ayah, current_time))
    /\ fetch_failed' = TRUE
    /\ OnFetchError
    /\ UNCHANGED <<audio_len, max_ayah, enable_intro, start_ayah, requested_end,
                   rejected, uncapped, page_vars, split_vars, timeline_vars,
                   cmd_vars, aux_vars>>

(***************************************************************************)
(* The hard cap (lines 195-199).                                           *)
(***************************************************************************)
\* Mutant of HardCap: the safety net is missing.
HardCapMissing(duration) == duration

HardCap(duration) ==
    IF duration > max_content_duration THEN max_content_duration ELSE duration

CapDuration ==
    /\ pc = "capping"
    /\ uncapped' = total_duration
    /\ total_duration' = HardCap(total_duration)
    /\ pc' = "finalized"
    /\ UNCHANGED <<audio_len, max_ayah, enable_intro, start_ayah, requested_end,
                   end_ayah, ayah_data, current_time, current_ayah, fetch_log,
                   rejected, fetch_failed, cmd_result, page_vars, split_vars, timeline_vars,
                   cmd_vars, aux_vars>>

(***************************************************************************)
(* STEPS 3-8 and the return of line 395; cmd_generate builds its result    *)
(* from the returned (path, start_ayah, end_ayah) (main.py 91-124).        *)
(***************************************************************************)
\* main.py 100-106: one more record, of the actual range
record_reel_history(records, actual_start, actual_end) ==
    Append(records, [start_ayah |-> actual_start, end_ayah |-> actual_end])

\* Mutant of advance_progress: the stored verse is left as it was.
AdvanceProgressNowhere(stored, actual_end) == stored

\* main.py 109-110: the stored verse becomes the actual end
advance_progress(stored, actual_end) == actual_end

\* line 395
ReturnedRange ==
    [kind |-> "dict", start_ayah |-> start_ayah, end_ayah |-> end_ayah]

\* lines 343-360: the intro frame adds INTRO_DURATION unless it fails
Export ==
    /\ pc = "finalized"
    /\ \E intro_ok \in BOOLEAN :
          total_duration' =
              IF enable_intro /\ intro_ok
              THEN total_duration + Centi(INTRO_DURATION)
              ELSE total_duration
    /\ cmd_result' = ReturnedRange
    /\ pc' = "done"
    /\ generated' = TRUE
    /\ history' = record_reel_history(history, start_ayah, end_ayah)
    /\ progress' = IF auto_selected
                   THEN advance_progress(progress, end_ayah)
                   ELSE progress
    /\ UNCHANGED <<audio_len, max_ayah, enable_intro, start_ayah, requested_end,
                   end_ayah, ayah_data, current_time, current_ayah, fetch_log,
                   rejected, uncapped, fetch_failed, page_vars, split_vars,
                   timeline_vars, aux_vars, cancel_requested, auto_selected>>

\* any of STEPS 3-8 raises: main.py 126-129
ExportRaises ==
    /\ pc = "finalized"
    /\ cmd_result' = None
    /\ pc' = "done"
    /\ UNCHANGED <<audio_len, max_ayah, enable_intro, start_ayah, requested_end,
                   end_ayah, ayah_data, current_time, current_ayah,
                   total_duration, fetch_log, rejected, uncapped, fetch_failed,
                   page_vars, split_vars, timeline_vars,
                   cmd_vars, aux_vars>>

(***************************************************************************)
(* compute_page_boundaries (text_renderer.py 258-318).                     *)
(* A segment is [word_index, start_ms, end_ms]; page times are in ms.      *)
(***************************************************************************)
MaxWords == 3               \* word_count in 0..MaxWords, word_index in 1..MaxWords
MaxSegments == 2            \* length of the timing list
MaxPageSize == 2            \* page_size in 1..MaxPageSize

SegmentStarts == {0, 40, 120}
SegmentLengths == {30, 200}
UnitDurations == {150, 400}

Segments ==
    {[word_index |-> w, start_ms |-> s, end_ms |-> s + l] :
        w \in 1..MaxWords, s \in SegmentStarts, l \in SegmentLengths}

\* the lists sorted(word_segments, key=start_ms) can return (line 254)
SortedSegmentLists ==
    UNION {{segs \in [1..n -> Segments] :
               \A i \in 1..(n - 1) : segs[i].start_ms <= segs[i + 1].start_ms} :
           n \in 0..MaxSegments}

\* math.ceil(a / b) for a >= 0, b >= 1
Ceil(a, b) == (a + b - 1) \div b

\* line 280
NumPages(wc, ps) == Max(1, Ceil(wc, ps))

\* line 284
PageWordStart(p, ps) == p * ps

\* Mutant of PageWordEnd: the last page is not clamped to the word count.
PageWordEndUnclamped(p, ps, wc) == (p + 1) * ps - 1

\* line 285
PageWordEnd(p, ps, wc) == Min((p + 1) * ps - 1, wc - 1)

\* lines 293-294
InPage(seg, w_start, w_end) ==
    w_start <= seg.word_index - 1 /\ seg.word_index - 1 <= w_end

\* lines 289-298: the scan over the segments, from segment i on, carrying
\* (start_time, end_time)
RECURSIVE ScanSegments(_, _, _, _, _, _)
ScanSegments(segs, i, w_start, w_end, start_time, end_time) ==
    IF i > Len(segs)
    THEN <<start_time, end_time>>
    ELSE IF InPage(segs[i], w_start, w_end)
         THEN ScanSegments(segs, i + 1, w_start, w_end,
                           Min(start_time, segs[i].start_ms),
                           Max(end_time, segs[i].end_ms))
         ELSE ScanSegments(segs, i + 1, w_start, w_end, start_time, end_time)

\* lines 301-302
PinEnd(p, num_pages, end_time, total) ==
    IF p = num_pages - 1 THEN total ELSE end_time

\* Mutant of PinStart: the first page keeps the start of its first segment.
PinStartMissing(p, start_time) == start_time

\* lines 305-306
PinStart(p, start_time) == IF p = 0 THEN 0 ELSE start_time

\* lines 283-316: page p
Page(segs, wc, total, ps, p) ==
    LET w_start == PageWordStart(p, ps)
        w_end   == PageWordEnd(p, ps, wc)
        scan    == ScanSegments(segs, 1, w_start, w_end, total, 0)
    IN  [page_index     |-> p,
         start_time     |-> PinStart(p, scan[1]),
         end_time       |-> PinEnd(p, NumPages(wc, ps), scan[2], total),
         word_start_idx |-> w_start,
         word_end_idx   |-> w_end]

compute_page_boundaries(segs, wc, total, ps) ==
    IF segs = <<>>
    THEN <<>>
    ELSE [k \in 1..NumPages(wc, ps) |-> Page(segs, wc, total, ps, k - 1)]

\* split_translation_by_pages is not running
SplitIdle ==
    /\ translation = <<>>
    /\ trans_segments = <<>>
    /\ split_called = FALSE

\* generate_reel is not running
ReelIdle ==
    /\ max_ayah = 1
    /\ audio_len = [a \in 1..1 |-> 500]
    /\ enable_intro = FALSE
    /\ start_ayah = 1
    /\ requested_end = 1
    /\ end_ayah = 1
    /\ ayah_data = <<>>
    /\ current_time = InitialTime
    /\ current_ayah = 1
    /\ total_duration = Unset
    /\ pc = "idle"
    /\ fetch_log = <<>>
    /\ rejected = 0
    /\ uncapped = Unset
    /\ fetch_failed = FALSE
    /\ cmd_result = Pending
    /\ cancel_requested = FALSE
    /\ auto_selected = FALSE
    /\ generated = FALSE
    /\ history = <<>>
    /\ progress = 0

InitPages ==
    /\ ReelIdle
    /\ sorted_segments \in SortedSegmentLists
    /\ word_count \in 0..MaxWords
    /\ unit_duration \in UnitDurations
    /\ page_size \in 1..MaxPageSize
    /\ pages = <<>>
    /\ pages_called = FALSE
    /\ SplitIdle
    /\ TimelineIdle
    /\ AuxIdle

CallComputePageBoundaries ==
    /\ ~pages_called
    /\ pages' = compute_page_boundaries(sorted_segments, word_count,
                                        unit_duration, page_size)
    /\ pages_called' = TRUE
    /\ UNCHANGED <<reel_vars, sorted_segments, word_count, unit_duration,
                   page_size, split_vars, timeline_vars, aux_vars>>

NextPages == CallComputePageBoundaries

SpecPages == InitPages /\ [][NextPages]_vars

(***************************************************************************)
(* split_translation_by_pages (text_renderer.py 325-374).                  *)
(* A string is a sequence of tokens: 0 is one space character, k >= 1 is   *)
(* the word k (a run of non-space characters).  In the strings of the      *)
(* model two words are always separated by at least one space.             *)
(***************************************************************************)
MaxTransWords == 5          \* words of the translation: 0..MaxTransWords
MaxSplitWords == 5          \* Arabic word count: 0..MaxSplitWords
MaxSplitPageSize == 3       \* page_size in 1..MaxSplitPageSize

Space == 0

\* str.split(): the words of a string, whitespace runs dropped
StrSplit(text) == SelectSeq(text, LAMBDA tok : tok # Space)

\* " ".join(list of strings)
RECURSIVE StrJoin(_)
StrJoin(strings) ==
    IF strings = <<>> THEN <<>>
    ELSE IF Len(strings) = 1 THEN strings[1]
    ELSE strings[1] \o <<Space>> \o StrJoin(Tail(strings))

\* " ".join(list of words)
JoinWords(trans_words) == StrJoin([i \in 1..Len(trans_words) |-> <<trans_words[i]>>])

\* the words 1..n with single spaces, and with a leading space, double
\* spaces between the words and a trailing space
RegularText(n) == JoinWords([i \in 1..n |-> i])
RECURSIVE IrregularFrom(_, _)
IrregularFrom(i, n) ==
    IF i > n THEN <<>>
    ELSE <<i>> \o (IF i < n THEN <<Space, Space>> ELSE <<Space>>)
             \o IrregularFrom(i + 1, n)
IrregularText(n) == <<Space>> \o IrregularFrom(1, n)

Translations ==
    UNION {{RegularText(n), IrregularText(n)} : n \in 0..MaxTransWords}

\* Python's round() of the quotient num / den (num >= 0, den >= 1): to the
\* nearest integer, a tie to the even one
PyRound(num, den) ==
    LET q == num \div den
        r == num % den
    IN  IF 2 * r < den THEN q
        ELSE IF 2 * r > den THEN q + 1
        ELSE IF q % 2 = 0 THEN q ELSE q + 1

\* Mutant of EmptyInputResult: the early return is not repeated per page.
EmptyInputResultOnce(text, page_boundaries) == <<text>>

\* lines 341-342
EmptyInputResult(text, page_boundaries) ==
    [i \in 1..Max(1, Len(page_boundaries)) |-> text]

\* Mutant of SinglePageResult: the words are joined back with single spaces.
SinglePageNormalised(text) == <<JoinWords(StrSplit(text))>>

\* lines 348-349
SinglePageResult(text) == <<text>>

\* Mutant of PageShare: the minimum of one word per page is missing.
PageShareNoMinimum(pb, total_word_count, n_trans_words) ==
    PyRound((pb.word_end_idx - pb.word_start_idx + 1) * n_trans_words,
            Max(total_word_count, 1))

\* lines 355-357
PageShare(pb, total_word_count, n_trans_words) ==
    Max(1, PyRound((pb.word_end_idx - pb.word_start_idx + 1) * n_trans_words,
                   Max(total_word_count, 1)))

\* words[lo:hi] of Python, 0 <= lo <= hi
Slice(trans_words, lo, hi) == SubSeq(trans_words, lo + 1, Min(hi, Len(trans_words)))

\* Mutant of SegWords: the last page takes its share only.
SegWordsNoRemainder(trans_words, consumed, count, is_last) ==
    Slice(trans_words, consumed, consumed + count)

\* lines 359-363
SegWords(trans_words, consumed, count, is_last) ==
    IF is_last
    THEN Slice(trans_words, consumed, Len(trans_words))
    ELSE Slice(trans_words, consumed, consumed + count)

\* lines 354-368: the loop from page i on
RECURSIVE SplitLoop(_, _, _, _, _, _)
SplitLoop(trans_words, page_boundaries, total_word_count, i, consumed, segs) ==
    IF i > Len(page_boundaries)
    THEN segs
    ELSE LET count == PageShare(page_boundaries[i], total_word_count,
                                Len(trans_words))
             seg_words == SegWords(trans_words, consumed, count,
                                   i = Len(page_boundaries))
         IN  SplitLoop(trans_words, page_boundaries, total_word_count, i + 1,
                       consumed + Len(seg_words),
                       Append(segs, JoinWords(seg_words)))

\* lines 370-372
RECURSIVE FillTrailing(_, _)
FillTrailing(segs, n_pages) ==
    IF Len(segs) < n_pages
    THEN FillTrailing(Append(segs, <<>>), n_pages)
    ELSE segs

split_translation_by_pages(text, page_boundaries, total_word_count) ==
    IF text = <<>> \/ page_boundaries = <<>>
    THEN EmptyInputResult(text, page_boundaries)
    ELSE IF Len(page_boundaries) <= 1
    THEN SinglePageResult(text)
    ELSE FillTrailing(SplitLoop(StrSplit(text), page_boundaries,
                                total_word_count, 1, 0, <<>>),
                      Len(page_boundaries))

\* the segment lists of the call site (video_generator.py 253-257): none, or
\* one timed word
SplitSegmentLists ==
    {<<>>, <<[word_index |-> 1, start_ms |-> 0, end_ms |-> 200]>>}

\* video_generator.py 253-260: the pages are those of the unit
InitSplit ==
    /\ ReelIdle
    /\ sorted_segments \in SplitSegmentLists
    /\ word_count \in 0..MaxSplitWords
    /\ unit_duration = 400
    /\ page_size \in 1..MaxSplitPageSize
    /\ pages = compute_page_boundaries(sorted_segments, word_count,
                                       unit_duration, page_size)
    /\ pages_called = TRUE
    /\ translation \in Translations
    /\ trans_segments = <<>>
    /\ split_called = FALSE
    /\ TimelineIdle
    /\ AuxIdle

CallSplitTranslation ==
    /\ ~split_called
    /\ trans_segments' =
           split_translation_by_pages(translation, pages, word_count)
    /\ split_called' = TRUE
    /\ UNCHANGED <<reel_vars, page_vars, translation, timeline_vars,
                   aux_vars>>

NextSplit == CallSplitTranslation

SpecSplit == InitSplit /\ [][NextSplit]_vars

(***************************************************************************)
(* create_accumulating_text_lines (text_renderer.py 772-946).  Times are   *)
(* integers in milliseconds; a word's text is a one-word string.           *)
(***************************************************************************)
MaxTimelineSegments == 3
MaxTimelinePageSize == 2
TimelineStarts == {0, 500, 530, 750}
TimelineDurations == {770, 1250}

page_crossfade_duration == 500   \* 0.5 s
MinStateDuration == 50           \* 0.05 s
TransitionProbe == 10            \* 0.01 s

Static == "static"               \* create_text_clip(full_text, ...)
Accumulating == "accumulating"   \* the VideoClip over make_frame

\* the timing entries of the words 1..n, in the order of the words; the
\* start times need not ascend
TimelineSegmentLists ==
    UNION {{[i \in 1..n |-> [word_index |-> i, start_ms |-> st[i],
                             end_ms |-> st[i] + 30]]
               : st \in [1..n -> TimelineStarts]}
              : n \in 0..MaxTimelineSegments}

\* the words 1..m, at most one of them with an empty text
TimelineWordLists ==
    UNION {{[k \in 1..m |-> [position |-> k,
                             text |-> IF k = u THEN <<>> ELSE <<k>>]]
               : u \in 0..m}
              : m \in 0..MaxTimelineSegments}

\* the times make_frame is called with
QueryTimes ==
    {t \in UNION {{T - page_crossfade_duration \div 2, T,
                   T + page_crossfade_duration \div 2}
                     : T \in TimelineStarts} : t >= 0}

\* sorted(segments, key=start_ms): stable
RECURSIVE InsertByStart(_, _)
InsertByStart(seg, sorted_segs) ==
    IF sorted_segs = <<>>
    THEN <<seg>>
    ELSE IF Last(sorted_segs).start_ms <= seg.start_ms
    THEN Append(sorted_segs, seg)
    ELSE Append(InsertByStart(seg, SubSeq(sorted_segs, 1,
                                          Len(sorted_segs) - 1)),
                Last(sorted_segs))

RECURSIVE sorted(_)
sorted(segs) ==
    IF segs = <<>>
    THEN <<>>
    ELSE InsertByStart(Last(segs), sorted(SubSeq(segs, 1, Len(segs) - 1)))

\* line 802 and line 808: word_map.get(word_idx, ""), a later entry of the
\* word list replacing an earlier one of the same position
word_map_get(word_list, word_idx) ==
    LET at == {k \in 1..Len(word_list) : word_list[k].position = word_idx}
    IN  IF at = {}
        THEN <<>>
        ELSE word_list[CHOOSE k \in at : \A j \in at : j <= k].text

\* Mutant of Skipped: an entry without text is processed like the others.
SkippedNever(text) == FALSE

\* lines 809-810
Skipped(text) == text = <<>>

\* Mutant of ActivePageWords: the buffer is not cut at the page start.
ActivePageWordsUncut(current_words, ps) == current_words

\* lines 813-817
ActivePageWords(current_words, ps) ==
    LET page_index == (Len(current_words) - 1) \div ps
        page_start_idx == page_index * ps
    IN  SubSeq(current_words, page_start_idx + 1, Len(current_words))

\* Mutant of StateEnd: no minimum duration.
StateEndNoFloor(start_s, end_s) == end_s

\* lines 827-828
StateEnd(start_s, end_s) ==
    IF end_s - start_s < MinStateDuration
    THEN start_s + MinStateDuration
    ELSE end_s

\* lines 805-832: the loop from entry i on
RECURSIVE StatesLoop(_, _, _, _, _, _, _)
StatesLoop(sorted_segs, word_list, total, ps, i, current_words, acc) ==
    IF i > Len(sorted_segs)
    THEN acc
    ELSE LET text == word_map_get(word_list, sorted_segs[i].word_index)
         IN  IF Skipped(text)
             THEN StatesLoop(sorted_segs, word_list, total, ps, i + 1,
                             current_words, acc)
             ELSE LET cw == Append(current_words, text)
                      start_s == sorted_segs[i].start_ms
                      next_s == IF i < Len(sorted_segs)
                                THEN sorted_segs[i + 1].start_ms
                                ELSE total
                      state == [start_s |-> start_s,
                                end_s |-> StateEnd(start_s, next_s),
                                page_index |-> (Len(cw) - 1) \div ps,
                                full_string |->
                                    StrJoin(ActivePageWords(cw, ps))]
                  IN  StatesLoop(sorted_segs, word_list, total, ps, i + 1,
                                 cw, Append(acc, state))

\* lines 859-863
PageTransitions(sts) ==
    LET at == SelectSeq([i \in 1..Len(sts) |-> i],
                        LAMBDA i : i > 1
                                   /\ sts[i].page_index
                                        # sts[i - 1].page_index)
    IN  [k \in 1..Len(at) |-> sts[at[k]].start_s]

\* rendered_frames[text_str]
Rendered(text_str) == [kind |-> "text", text |-> text_str]

\* Mutant of _get_state_at: the scan does not stop at the first match.
GetStateAtLastMatch(sts, t) ==
    LET hit == {i \in 1..Len(sts) : sts[i].start_s <= t /\ t < sts[i].end_s}
    IN  IF hit # {}
        THEN Rendered(sts[CHOOSE i \in hit : \A j \in hit : j <= i]
                          .full_string)
        ELSE IF sts # <<>> /\ t >= Last(sts).start_s
        THEN Rendered(Last(sts).full_string)
        ELSE EmptyFrame

\* lines 865-877
_get_state_at(sts, t) ==
    LET hit == {i \in 1..Len(sts) : sts[i].start_s <= t /\ t < sts[i].end_s}
    IN  IF hit # {}
        THEN Rendered(sts[CHOOSE i \in hit : \A j \in hit : i <= j]
                          .full_string)
        ELSE IF sts # <<>> /\ t >= Last(sts).start_s
        THEN Rendered(Last(sts).full_string)
        ELSE EmptyFrame

\* line 884
InWindow(trans_t, t) ==
    /\ trans_t - page_crossfade_duration \div 2 <= t
    /\ t <= trans_t + page_crossfade_duration \div 2

\* Mutant of FrameAround: the scan stops at the first match.
FrameAroundFirstMatch(sts, probe) ==
    LET hit == {i \in 1..Len(sts) :
                    sts[i].start_s <= probe /\ probe < sts[i].end_s}
    IN  IF hit = {}
        THEN EmptyFrame
        ELSE Rendered(sts[CHOOSE i \in hit : \A j \in hit : i <= j]
                          .full_string)

\* lines 887-893: the last state whose interval contains probe, no break
FrameAround(sts, probe) ==
    LET hit == {i \in 1..Len(sts) :
                    sts[i].start_s <= probe /\ probe < sts[i].end_s}
    IN  IF hit = {}
        THEN EmptyFrame
        ELSE Rendered(sts[CHOOSE i \in hit : \A j \in hit : j <= i]
                          .full_string)

\* lines 895-896, in ms: blend / page_crossfade_duration is the factor
Blend(trans_t, t) ==
    Max(0, Min(page_crossfade_duration,
               t - (trans_t - page_crossfade_duration \div 2)))

\* lines 879-906: the frame is out_frame * (1 - blend) + in_frame * blend
\* in the window of the first transition that contains t, else frame_rgba
make_frame(sts, transitions, t) ==
    LET frame_rgba == _get_state_at(sts, t)
        near == {k \in 1..Len(transitions) : InWindow(transitions[k], t)}
    IN  IF near = {}
        THEN [made |-> TRUE, t |-> t, frame_rgba |-> frame_rgba,
              blended |-> FALSE, trans_t |-> 0, blend |-> 0,
              out_frame |-> EmptyFrame, in_frame |-> EmptyFrame]
        ELSE LET trans_t ==
                     transitions[CHOOSE k \in near : \A j \in near : k <= j]
             IN  [made |-> TRUE, t |-> t, frame_rgba |-> frame_rgba,
                  blended |-> TRUE, trans_t |-> trans_t,
                  blend |-> Blend(trans_t, t),
                  out_frame |-> FrameAround(sts, trans_t - TransitionProbe),
                  in_frame |-> FrameAround(sts, trans_t + TransitionProbe)]

\* lines 911-933: the alpha channel, blended the same way
make_mask(sts, transitions, t) ==
    LET frame_rgba == _get_state_at(sts, t)
        near == {k \in 1..Len(transitions) : InWindow(transitions[k], t)}
    IN  IF near = {}
        THEN [made |-> TRUE, t |-> t, frame_rgba |-> frame_rgba,
              blended |-> FALSE, trans_t |-> 0, blend |-> 0,
              out_frame |-> EmptyFrame, in_frame |-> EmptyFrame]
        ELSE LET trans_t ==
                     transitions[CHOOSE k \in near : \A j \in near : k <= j]
             IN  [made |-> TRUE, t |-> t, frame_rgba |-> frame_rgba,
                  blended |-> TRUE, trans_t |-> trans_t,
                  blend |-> Blend(trans_t, t),
                  out_frame |-> FrameAround(sts, trans_t - TransitionProbe),
                  in_frame |-> FrameAround(sts, trans_t + TransitionProbe)]

\* video_generator.py 227-232: the arguments
InitTimeline ==
    /\ ReelIdle
    /\ sorted_segments = <<>>
    /\ word_count = 0
    /\ unit_duration \in TimelineDurations
    /\ page_size \in 1..MaxTimelinePageSize
    /\ pages = <<>>
    /\ pages_called = FALSE
    /\ SplitIdle
    /\ AuxIdle
    /\ segments \in TimelineSegmentLists
    /\ words \in TimelineWordLists
    /\ states = <<>>
    /\ page_transitions = <<>>
    /\ text_clip = NotBuilt
    /\ static_clip = NoClip
    /\ frame = NoFrame

\* Mutant of create_text_clip: the clip shows no text.
CreateTextClipBlank(arabic_text, duration) ==
    [made |-> TRUE, text |-> <<>>, duration |-> duration]

\* lines 499-518: the static clip of a text, for a duration
create_text_clip(arabic_text, duration) ==
    [made |-> TRUE, text |-> arabic_text, duration |-> duration]

\* line 835 and line 942: " ".join([w.get("text", "") for w in words])
FullText(word_list) ==
    StrJoin([k \in 1..Len(word_list) |-> word_list[k].text])

\* lines 793-863: the state list and the transitions
BuildTimeline ==
    /\ sorted_segments' = sorted(segments)
    /\ states' = StatesLoop(sorted_segments', words, unit_duration,
                            page_size, 1, <<>>, <<>>)
    /\ page_transitions' = PageTransitions(states')

\* lines 793-938, nothing raises
CreateAccumulatingTextLines ==
    /\ text_clip = NotBuilt
    /\ BuildTimeline
    /\ text_clip' = IF states' = <<>> THEN Static ELSE Accumulating
    /\ static_clip' = IF states' = <<>>
                      THEN create_text_clip(FullText(words), unit_duration)
                      ELSE NoClip
    /\ UNCHANGED <<reel_vars, word_count, unit_duration, page_size, pages,
                   pages_called, split_vars, segments, words, frame,
                   aux_vars>>

\* lines 838-857 and 940-944: rendering raises, the static clip is returned
RenderRaises ==
    /\ text_clip = NotBuilt
    /\ BuildTimeline
    /\ states' # <<>>
    /\ text_clip' = Static
    /\ static_clip' = create_text_clip(FullText(words), unit_duration)
    /\ UNCHANGED <<reel_vars, word_count, unit_duration, page_size, pages,
                   pages_called, split_vars, segments, words, frame,
                   aux_vars>>

\* lines 879-906: the clip is asked for its frame at t
MakeFrame ==
    /\ text_clip = Accumulating
    /\ \E t \in QueryTimes :
          frame' = make_frame(states, page_transitions, t)
    /\ UNCHANGED <<reel_vars, page_vars, split_vars, segments, words, states,
                   page_transitions, text_clip, static_clip, aux_vars>>

NextTimeline ==
    \/ CreateAccumulatingTextLines
    \/ RenderRaises
    \/ MakeFrame

SpecTimeline == InitTimeline /\ [][NextTimeline]_vars

\* main.py 98-106: generate_reel has returned and get_full_text or
\* record_reel_history raises
RecordRaises ==
    /\ pc = "finalized"
    /\ generated' = TRUE
    /\ cmd_result' = None
    /\ pc' = "done"
    /\ UNCHANGED <<audio_len, max_ayah, enable_intro, start_ayah, requested_end,
                   end_ayah, ayah_data, current_time, current_ayah,
                   total_duration, fetch_log, rejected, uncapped, fetch_failed,
                   page_vars, split_vars, timeline_vars, aux_vars,
                   cancel_requested,
                   auto_selected, history, progress>>

\* main.py 109-110: the record is written and advance_progress raises
AdvanceRaises ==
    /\ pc = "finalized"
    /\ auto_selected
    /\ generated' = TRUE
    /\ history' = record_reel_history(history, start_ayah, end_ayah)
    /\ cmd_result' = None
    /\ pc' = "done"
    /\ UNCHANGED <<audio_len, max_ayah, enable_intro, start_ayah, requested_end,
                   end_ayah, ayah_data, current_time, current_ayah,
                   total_duration, fetch_log, rejected, uncapped, fetch_failed,
                   page_vars, split_vars, timeline_vars, aux_vars,
                   cancel_requested,
                   auto_selected, progress>>

\* the caller asks for the reel to be abandoned while units are fetched;
\* lines 140-192 read no such request
RequestCancel ==
    /\ pc \in {"accumulating", "extending"}
    /\ ~cancel_requested
    /\ cancel_requested' = TRUE
    /\ UNCHANGED <<audio_len, max_ayah, enable_intro, start_ayah, requested_end,
                   end_ayah, ayah_data, current_time, current_ayah,
                   total_duration, pc, fetch_log, rejected, uncapped,
                   fetch_failed, cmd_result, auto_selected, generated, history,
                   progress, page_vars, split_vars, timeline_vars, aux_vars>>

(***************************************************************************)
(* cmd_auto (main.py 194-340): generate, ask for approval, upload.  A      *)
(* video is known by the attempt that generated it.                        *)
(***************************************************************************)
max_attempts == 3

\* what wait_for_approval returns (main.py 259-285)
Replies == {"approved", "skip", "rejected", "regenerate", "timeout"}

\* no approval was asked for the video
NoReply == "none"

\* what cmd_auto returns: gen_result, or the result of upload_video
GenResult(video) == [kind |-> "gen_result", video |-> video]
UploadResult(video) == [kind |-> "upload_result", video |-> video]

\* everything but cmd_auto is at rest
CoreIdle ==
    /\ ReelIdle
    /\ sorted_segments = <<>>
    /\ word_count = 0
    /\ unit_duration = 0
    /\ page_size = 1
    /\ pages = <<>>
    /\ pages_called = FALSE
    /\ SplitIdle
    /\ TimelineIdle

InitAuto ==
    /\ CoreIdle
    /\ UploadIdle
    /\ RenderIdle
    /\ attempt = 0
    /\ auto_pc = "loop"
    /\ approval_needed \in BOOLEAN
    /\ gen_result = 0
    /\ approvals = <<>>
    /\ upload_calls = <<>>
    /\ deleted = {}
    /\ auto_result = Pending

\* line 216
LoopGuard == attempt < max_attempts

\* cmd_auto touches nothing of the other parts
AutoFrame ==
    UNCHANGED <<reel_vars, page_vars, split_vars, timeline_vars, upload_vars,
                render_vars>>

\* lines 223-227: cmd_generate returns None
AttemptGenerateFails ==
    /\ auto_pc = "loop"
    /\ LoopGuard
    /\ attempt' = attempt + 1
    /\ gen_result' = 0
    /\ auto_result' = None
    /\ auto_pc' = "returned"
    /\ UNCHANGED <<approval_needed, approvals, upload_calls, deleted>>
    /\ AutoFrame

\* lines 237 and 286-291: no approval is asked for, or the request could
\* not be sent (message_id is falsy); break
AttemptNoApproval ==
    /\ auto_pc = "loop"
    /\ LoopGuard
    /\ attempt' = attempt + 1
    /\ gen_result' = attempt + 1
    /\ approvals' = Append(approvals, NoReply)
    /\ auto_pc' = "upload"
    /\ UNCHANGED <<approval_needed, upload_calls, deleted, auto_result>>
    /\ AutoFrame

\* lines 262-285: what the reply does; os.remove may fail silently
OnReply(approval, video, removed) ==
    CASE approval \in {"approved", "skip"} ->
             /\ auto_pc' = "upload"
             /\ UNCHANGED <<deleted, auto_result>>
      [] approval = "rejected" ->
             /\ deleted' = IF removed THEN deleted \cup {video} ELSE deleted
             /\ auto_result' = None
             /\ auto_pc' = "returned"
      [] approval = "regenerate" ->
             /\ deleted' = IF removed THEN deleted \cup {video} ELSE deleted
             /\ auto_pc' = "loop"
             /\ UNCHANGED auto_result
      [] approval = "timeout" ->
             /\ auto_result' = GenResult(video)
             /\ auto_pc' = "returned"
             /\ UNCHANGED deleted

\* lines 237-285: the request was sent and wait_for_approval has returned
AttemptApprovalReply ==
    /\ auto_pc = "loop"
    /\ LoopGuard
    /\ approval_needed
    /\ attempt' = attempt + 1
    /\ gen_result' = attempt + 1
    /\ \E approval \in Replies, removed \in BOOLEAN :
          /\ approvals' = Append(approvals, approval)
          /\ OnReply(approval, attempt + 1, removed)
    /\ UNCHANGED <<approval_needed, upload_calls>>
    /\ AutoFrame

\* line 216 false: the loop ends without a break
LoopExhausted ==
    /\ auto_pc = "loop"
    /\ ~LoopGuard
    /\ auto_pc' = "upload"
    /\ UNCHANGED <<attempt, approval_needed, gen_result, approvals,
                   upload_calls, deleted, auto_result>>
    /\ AutoFrame

\* lines 293-297: YouTube is not configured
UploadNotConfigured ==
    /\ auto_pc = "upload"
    /\ auto_result' = GenResult(gen_result)
    /\ auto_pc' = "returned"
    /\ UNCHANGED <<attempt, approval_needed, gen_result, approvals,
                   upload_calls, deleted>>
    /\ AutoFrame

\* lines 312-340: upload_video is called; it returns or raises
UploadVideo ==
    /\ auto_pc = "upload"
    /\ upload_calls' = Append(upload_calls, gen_result)
    /\ \E uploaded \in BOOLEAN :
          auto_result' = IF uploaded /\ gen_result \notin deleted
                         THEN UploadResult(gen_result)
                         ELSE GenResult(gen_result)
    /\ auto_pc' = "returned"
    /\ UNCHANGED <<attempt, approval_needed, gen_result, approvals, deleted>>
    /\ AutoFrame

NextAuto ==
    \/ AttemptGenerateFails
    \/ AttemptNoApproval
    \/ AttemptApprovalReply
    \/ LoopExhausted
    \/ UploadNotConfigured
    \/ UploadVideo

SpecAuto == InitAuto /\ [][NextAuto]_vars

(***************************************************************************)
(* _execute_with_retry and _handle_retry (src/youtube/uploader.py 211-271). *)
(***************************************************************************)
MAX_RETRIES == 5
MaxChunks == 2              \* calls of next_chunk that report progress only

RETRIABLE_STATUS_CODES == {500, 502, 503, 504}

\* statuses of an HttpError that are not in the list
OtherStatusCodes == {400, 403}

HttpError(status) == [kind |-> "HttpError", status |-> status]
IOError == [kind |-> "IOError", status |-> 0]
OtherError == [kind |-> "Exception", status |-> 0]

\* the response of the finished upload
Response == [kind |-> "response", id |-> 1]

\* Mutant of _handle_retry: the limit is compared with > instead of >=.
HandleRetryOneMore(retry_count) ==
    IF retry_count > MAX_RETRIES
    THEN [raised |-> TRUE, retry_count |-> retry_count]
    ELSE [raised |-> FALSE, retry_count |-> retry_count + 1]

\* lines 247-271: raises at the limit, else the incremented count (after a
\* sleep)
_handle_retry(retry_count) ==
    IF retry_count >= MAX_RETRIES
    THEN [raised |-> TRUE, retry_count |-> retry_count]
    ELSE [raised |-> FALSE, retry_count |-> retry_count + 1]

\* upload_video line 190: the call
InitUpload ==
    /\ CoreIdle
    /\ AutoIdle
    /\ RenderIdle
    /\ upload_pc = "running"
    /\ retry = 0
    /\ response = None
    /\ chunks = 0
    /\ failures = 0
    /\ last_error = NoError
    /\ upload_error = ""

UploadFrame ==
    UNCHANGED <<reel_vars, page_vars, split_vars, timeline_vars, auto_vars,
                render_vars>>

\* line 223: the loop goes on while response is None
UploadGuard == upload_pc = "running" /\ response = None

\* lines 239 and 242: retry = _handle_retry(retry, ...)
RetryOrRaise ==
    LET handled == _handle_retry(retry)
    IN  /\ failures' = failures + 1
        /\ retry' = handled.retry_count
        /\ IF handled.raised
           THEN /\ upload_pc' = "raised"
                /\ upload_error' = "Max retries exceeded"
           ELSE UNCHANGED <<upload_pc, upload_error>>

\* lines 224-231: next_chunk returns (status, None)
ChunkUploaded ==
    /\ UploadGuard
    /\ chunks < MaxChunks
    /\ chunks' = chunks + 1
    /\ last_error' = NoError
    /\ UNCHANGED <<upload_pc, retry, response, failures, upload_error>>
    /\ UploadFrame

\* lines 224-231 and 244: next_chunk returns the response
UploadFinished ==
    /\ UploadGuard
    /\ response' = Response
    /\ upload_pc' = "returned"
    /\ last_error' = NoError
    /\ UNCHANGED <<retry, chunks, failures, upload_error>>
    /\ UploadFrame

\* lines 233-239: next_chunk raises HttpError
ChunkHttpError ==
    /\ UploadGuard
    /\ \E status \in RETRIABLE_STATUS_CODES \cup OtherStatusCodes :
          /\ last_error' = HttpError(status)
          /\ IF status \in RETRIABLE_STATUS_CODES
             THEN RetryOrRaise
             ELSE /\ upload_pc' = "raised"
                  /\ upload_error' = "HTTP error"
                  /\ UNCHANGED <<retry, failures>>
    /\ UNCHANGED <<response, chunks>>
    /\ UploadFrame

\* lines 241-242: next_chunk raises IOError
ChunkIOError ==
    /\ UploadGuard
    /\ last_error' = IOError
    /\ RetryOrRaise
    /\ UNCHANGED <<response, chunks>>
    /\ UploadFrame

\* next_chunk raises anything else: no handler, the exception leaves
\* _execute_with_retry as it is
ChunkOtherError ==
    /\ UploadGuard
    /\ last_error' = OtherError
    /\ upload_pc' = "raised"
    /\ UNCHANGED <<retry, response, chunks, failures, upload_error>>
    /\ UploadFrame

NextUpload ==
    \/ ChunkUploaded
    \/ UploadFinished
    \/ ChunkHttpError
    \/ ChunkIOError
    \/ ChunkOtherError

SpecUpload == InitUpload /\ [][NextUpload]_vars

(***************************************************************************)
(* PILTextRenderer.render_text and _get_renderer (text_renderer.py         *)
(* 110-251).  A text is a sequence of tokens as above; MarkedWord is the   *)
(* word PlainWord carrying a Uthmani mark.  A buffer is known by what is   *)
(* drawn into it: the wrapped lines, the font size, the colour, whether    *)
(* the Arabic shaping branch was taken, and the style whose font, stroke   *)
(* and shadow are used.                                                    *)
(***************************************************************************)
PlainWord == 1
MarkedWord == 3

RenderTexts == {<<PlainWord, Space, 2>>, <<MarkedWord, Space, 2>>}
RenderFontSizes == {72}
RenderColors == {"white"}
RenderMaxWidths == {900}
RenderWordsPerLine == {1, 2}
Styles == {1, 2}

\* lines 47-52: the marks are removed from the text
_clean_arabic(text) ==
    [i \in 1..Len(text) |-> IF text[i] = MarkedWord THEN PlainWord ELSE text[i]]

\* lines 81-88: the lines of words_per_line words
wrap_text(text, words_per_line) ==
    LET text_words == StrSplit(text)
        n == (Len(text_words) + words_per_line - 1) \div words_per_line
    IN  [k \in 1..n |->
            SubSeq(text_words, (k - 1) * words_per_line + 1,
                   Min(k * words_per_line, Len(text_words)))]

\* line 146: max_width is part of the key, is_arabic and the style are not
cache_key(text, font_size, color, max_width, words_per_line) ==
    [text |-> text, font_size |-> font_size, color |-> color,
     max_width |-> max_width, words_per_line |-> words_per_line]

\* lines 150-235: the picture drawn for a text (already cleaned), with the
\* font, stroke and shadow of style
Draw(text, font_size, color, words_per_line, is_arabic, style) ==
    [lines |-> wrap_text(text, words_per_line), font_size |-> font_size,
     color |-> color, shaped |-> is_arabic, style |-> style]

\* lines 247-251: the style of the renderer _get_renderer(style) returns
GetRendererStyle(style) ==
    IF _renderer = None THEN style ELSE _renderer.style

InitRender ==
    /\ CoreIdle
    /\ AutoIdle
    /\ UploadIdle
    /\ RenderIdle

\* _get_renderer(style).render_text(...), as at lines 460-468, 559-567 and
\* 794-849
RenderText ==
    /\ \E text \in RenderTexts, font_size \in RenderFontSizes,
          color \in RenderColors, max_width \in RenderMaxWidths,
          words_per_line \in RenderWordsPerLine, is_arabic \in BOOLEAN,
          style \in Styles :
          LET self_style == GetRendererStyle(style)
              cleaned == IF is_arabic THEN _clean_arabic(text) ELSE text
              key == cache_key(cleaned, font_size, color, max_width,
                               words_per_line)
              hit == {e \in _cache : e.key = key}
              result == IF hit # {}
                        THEN (CHOOSE e \in hit : TRUE).buffer
                        ELSE Draw(cleaned, font_size, color, words_per_line,
                                  is_arabic, self_style)
          IN  /\ _renderer' = [kind |-> "PILTextRenderer",
                               style |-> self_style]
              /\ _cache' = IF hit # {}
                           THEN _cache
                           ELSE _cache \cup {[key |-> key, buffer |-> result]}
              /\ rendered' = [made |-> TRUE, text |-> text,
                              font_size |-> font_size, color |-> color,
                              max_width |-> max_width,
                              words_per_line |-> words_per_line,
                              is_arabic |-> is_arabic, style |-> style,
                              buffer |-> result]
    /\ UNCHANGED <<reel_vars, page_vars, split_vars, timeline_vars, auto_vars,
                   upload_vars>>

NextRender == RenderText

SpecRender == InitRender /\ [][NextRender]_vars

Next ==
    \/ FetchRequested
    \/ FinishRequested
    \/ ExtendFetch
    \/ FinishExtend
    \/ FetchRaises
    \/ CapDuration
    \/ Export
    \/ ExportRaises
    \/ RecordRaises
    \/ AdvanceRaises
    \/ RequestCancel

Spec == Init /\ [][Next]_vars

(***************************************************************************)
(* Properties of the unit sequencer.                                       *)
(***************************************************************************)
MinDuration == Centi(MIN_REEL_DURATION_SECONDS)

Assembled == pc = "finalized"

\* The duration the reel would have with every unit from the start index to
\* the last verse of the surah appended.
TotalAvailableDuration ==
    LET padded == [a \in 1..max_ayah |-> audio_len[a] + AYAH_PADDING_SECONDS]
    IN  InitialTime + SumLen(padded, start_ayah, max_ayah) + TrailingBuffer

\* C1: once assembly is finished (after accumulation, extension and the cap
\* step) total_duration is never greater than max_content_duration, also
\* when the first unit alone is longer than the maximum.
C1_TotalWithinMax == Assembled => total_duration <= max_content_duration

C1_Witness ==
    /\ Assembled
    /\ Len(ayah_data) = 1
    /\ projected_duration(ayah_data[1]) > max_content_duration
    /\ uncapped > max_content_duration

\* C2 as claimed: when assembly finishes, total_duration is at least
\* min(minDuration, duration of all the available units): the sequencer never
\* finishes below the minimum while an available unit is unappended.
C2_Original ==
    Assembled => total_duration >= Min(MinDuration, TotalAvailableDuration)

\* C2 as amended: when assembly finishes, total_duration is at least the
\* minimum, or every unit up to the last verse of the surah was appended, or
\* the next unit was the last one fetched and was left out because appending
\* it would take the projected duration over max_content_duration.
C2_MinOrExhaustedOrTooLong ==
    Assembled =>
        \/ total_duration >= MinDuration
        \/ current_ayah > max_ayah
        \/ /\ Last(fetch_log).ayah = current_ayah
           /\ projected_duration(Last(fetch_log)) > max_content_duration

\* extension took place and still ended below the minimum
C2_Witness ==
    /\ Assembled
    /\ Last(ayah_data).ayah > requested_end
    /\ total_duration < MinDuration
    /\ current_ayah <= max_ayah

\* C3: every appended unit other than the first has a projected duration
\* (segment_end + 0.5) of at most max_content_duration.
C3_LaterUnitsFit ==
    \A i \in 2..Len(ayah_data) :
        projected_duration(ayah_data[i]) <= max_content_duration

\* a unit was appended after the first and a later fetched unit was refused
C3_Witness ==
    /\ Len(ayah_data) >= 2
    /\ Len(fetch_log) > Len(ayah_data)
    /\ ~fetch_failed

\* C4 as claimed: once a unit has been rejected in the first loop, no further
\* fetch is performed and no further unit is appended: the rejected fetch
\* stays the last call of fetch_single_ayah.
C4_NoFetchAfterRejection ==
    rejected # 0 =>
        /\ Len(fetch_log) = Len(ayah_data) + 1
        /\ Last(fetch_log).ayah = rejected
        /\ ~Last(fetch_log).raised
        /\ Last(ayah_data).ayah = rejected - 1

\* C5: a unit beyond the requested end index is appended only from a state
\* where total_duration < minDuration, total_duration < max_content_duration
\* and its index is within the surah; and no unit is appended once the
\* minimum is reached or the surah is exhausted.
C5_ExtensionGuarded ==
    [][ /\ ( /\ Len(ayah_data') = Len(ayah_data) + 1
             /\ Last(ayah_data').ayah > requested_end )
           => /\ pc = "extending"
              /\ total_duration < MinDuration
              /\ total_duration < max_content_duration
              /\ Last(ayah_data').ayah <= max_ayah
              /\ projected_duration(Last(ayah_data')) <= max_content_duration
        /\ ( /\ pc = "extending"
             /\ \/ total_duration >= MinDuration
                \/ current_ayah > max_ayah )
           => ayah_data' = ayah_data
      ]_vars

\* two units were appended beyond the requested end
C5_Witness ==
    /\ Len(ayah_data) >= 3
    /\ ayah_data[Len(ayah_data) - 1].ayah > requested_end

\* C6 as claimed: units are fetched and appended in strictly ascending,
\* consecutive index order from the start index, each fetched with the
\* segment_end of the previously appended unit as its start time (0.1 s for
\* the first).
C6_FetchedAndAppendedInOrder ==
    /\ \A i \in 1..Len(fetch_log) : fetch_log[i].ayah = start_ayah + i - 1
    /\ \A i \in 1..Len(ayah_data) :
          /\ ayah_data[i].ayah = start_ayah + i - 1
          /\ ayah_data[i].start_time =
                 IF i = 1 THEN InitialTime ELSE ayah_data[i - 1].segment_end
    /\ \A i \in 1..Len(fetch_log) :
          \/ i > Len(ayah_data)
          \/ fetch_log[i].start_time = ayah_data[i].start_time

\* C7: the end index returned to the caller is the index of the last
\* appended unit.
C7_ReportedEndIsLastUnit ==
    /\ pc \in {"capping", "finalized"} => end_ayah = Last(ayah_data).ayah
    /\ cmd_result.kind = "dict" =>
          /\ cmd_result.end_ayah = Last(ayah_data).ayah
          /\ cmd_result.start_ayah = ayah_data[1].ayah

\* returned after the requested range was cut short
C7_Witness ==
    /\ cmd_result.kind = "dict"
    /\ rejected # 0
    /\ cmd_result.end_ayah < requested_end

\* C8: when a fetch fails the failure leaves the sequencer: cmd_generate
\* returns None, no reel is made of the units fetched so far, and the failed
\* index stays the next index (it is not skipped).
C8_FetchFailurePropagates ==
    fetch_failed =>
        /\ pc = "done"
        /\ cmd_result = None
        /\ Last(fetch_log).raised
        /\ Last(fetch_log).ayah = current_ayah
        /\ Len(fetch_log) >= Len(ayah_data) + 1

\* a fetch of the extension loop failed after units were appended
C8_Witness ==
    /\ fetch_failed
    /\ Len(ayah_data) >= 2
    /\ current_ayah > requested_end

(***************************************************************************)
(* Properties of compute_page_boundaries.                                  *)
(***************************************************************************)
PagesReturned == pages_called /\ sorted_segments # <<>>

\* the least n with n * page_size >= word_count
LeastCover(wc, ps) == CHOOSE n \in 0..wc : n * ps >= wc /\ (n - 1) * ps < wc

WordsOf(page) == page.word_start_idx..page.word_end_idx

\* C9: with a non-empty timing list compute_page_boundaries returns
\* max(1, ceil(w/p)) pages, page_index counting up from 0, whose word ranges
\* [p*k, min((k+1)*p - 1, w - 1)] are contiguous, do not overlap and
\* together cover [0, w).
C9_PagesPartitionWords ==
    PagesReturned =>
        /\ Len(pages) = Max(1, LeastCover(word_count, page_size))
        /\ \A k \in 1..Len(pages) :
              /\ pages[k].page_index = k - 1
              /\ pages[k].word_start_idx = page_size * (k - 1)
              /\ pages[k].word_end_idx =
                     Min(k * page_size - 1, word_count - 1)
        /\ pages[1].word_start_idx = 0
        /\ Last(pages).word_end_idx = word_count - 1
        /\ \A k \in 1..(Len(pages) - 1) :
              pages[k + 1].word_start_idx = pages[k].word_end_idx + 1
        /\ \A j, k \in 1..Len(pages) :
              j # k => WordsOf(pages[j]) \cap WordsOf(pages[k]) = {}
        /\ UNION {WordsOf(pages[k]) : k \in 1..Len(pages)}
               = 0..(word_count - 1)

\* several pages, the last one shorter than the page size
C9_Witness ==
    /\ PagesReturned
    /\ Len(pages) >= 2
    /\ Cardinality(WordsOf(Last(pages))) < page_size

\* C10: for a non-empty page list the first page starts at 0.0 and the last
\* page ends at the unit duration, whatever the timestamps are.
C10_BoundariesPinned ==
    (pages_called /\ pages # <<>>) =>
        /\ pages[1].start_time = 0
        /\ Last(pages).end_time = unit_duration

\* one page, first and last at once, whose segments start after 0 and end
\* after the unit duration
C10_Witness ==
    /\ pages_called
    /\ Len(pages) = 1
    /\ \A i \in 1..Len(sorted_segments) :
          /\ InPage(sorted_segments[i], 0, word_count - 1)
          /\ sorted_segments[i].start_ms > 0
          /\ sorted_segments[i].end_ms > unit_duration

\* C11 as claimed: every page returned by compute_page_boundaries has
\* end_time > start_time and word_end_idx >= word_start_idx.
C11_PagesWellFormed ==
    pages_called =>
        \A k \in 1..Len(pages) :
            /\ pages[k].end_time > pages[k].start_time
            /\ pages[k].word_end_idx >= pages[k].word_start_idx

(***************************************************************************)
(* Properties of split_translation_by_pages.                               *)
(***************************************************************************)
TransWords == StrSplit(translation)

\* translation words in segment i, and in the segments before it
Taken(i) == Len(StrSplit(trans_segments[i]))
RECURSIVE TakenBefore(_)
TakenBefore(i) == IF i <= 1 THEN 0 ELSE TakenBefore(i - 1) + Taken(i - 1)

\* the integer nearest to num / den, the even one of two
Nearest(num, den) ==
    CHOOSE r \in 0..(num + 1) :
        LET d == IF r * den >= num THEN r * den - num ELSE num - r * den
        IN  2 * d < den \/ (2 * d = den /\ r % 2 = 0)

\* max(1, round(pageWordSpan / totalWordCount * translationWordCount))
ShareOf(i) ==
    Max(1, Nearest((pages[i].word_end_idx - pages[i].word_start_idx + 1)
                       * Len(TransWords),
                   Max(word_count, 1)))

NonEmptySegments == SelectSeq(trans_segments, LAMBDA seg : seg # <<>>)

C13_SplitIsLossless ==
    (split_called /\ translation # <<>> /\ Len(pages) > 1) =>
        /\ StrSplit(StrJoin(NonEmptySegments)) = TransWords
        /\ StrJoin(NonEmptySegments) = JoinWords(TransWords)

\* three pages, each with words, of a translation with irregular spacing
C13_Witness ==
    /\ split_called
    /\ Len(pages) >= 3
    /\ Len(NonEmptySegments) = Len(pages)
    /\ Len(TransWords) >= 4
    /\ translation # JoinWords(TransWords)

C15_SinglePagePassthrough ==
    (split_called /\ Len(pages) = 1) => trans_segments = <<translation>>

\* one page and a translation that splitting and joining would change
C15_Witness ==
    /\ split_called
    /\ Len(pages) = 1
    /\ Len(TransWords) >= 2
    /\ translation # JoinWords(TransWords)
    /\ trans_segments[1] = translation

(***************************************************************************)
(* Properties of create_accumulating_text_lines.                           *)
(***************************************************************************)
TimelineBuilt == text_clip # NotBuilt

\* the words shown by state k
StateWords(k) == StrSplit(states[k].full_string)

\* entry i of the sorted timing list has a non-empty text in the word list
Mapped(i) ==
    \E k \in 1..Len(words) :
        /\ words[k].position = sorted_segments[i].word_index
        /\ words[k].text # <<>>

MappedEntries == {i \in 1..Len(sorted_segments) : Mapped(i)}

\* the k-th mapped entry of the sorted timing list
EntryOf(k) ==
    CHOOSE i \in MappedEntries :
        Cardinality({j \in MappedEntries : j <= i}) = k

\* C16: between consecutive states of the same page the later text is the
\* earlier text with more words after it; when the page index changes it
\* goes up by exactly 1 and the new state shows a single word.
C16_MonotonicAccumulation ==
    TimelineBuilt =>
        \A k \in 1..(Len(states) - 1) :
            IF states[k + 1].page_index = states[k].page_index
            THEN /\ Len(StateWords(k)) < Len(StateWords(k + 1))
                 /\ SubSeq(StateWords(k + 1), 1, Len(StateWords(k)))
                        = StateWords(k)
            ELSE /\ states[k + 1].page_index = states[k].page_index + 1
                 /\ Len(StateWords(k + 1)) = 1

\* a page filling up, then the next page opening
C16_Witness ==
    /\ TimelineBuilt
    /\ Len(states) >= 3
    /\ states[1].page_index = states[2].page_index
    /\ Len(StateWords(2)) = 2
    /\ states[3].page_index # states[2].page_index

C18_OneStatePerMappedEntry ==
    TimelineBuilt =>
        /\ Len(states) = Cardinality(MappedEntries)
        /\ \A k \in 1..Len(states) :
              /\ states[k].start_s = sorted_segments[EntryOf(k)].start_ms
              /\ Last(StateWords(k))
                     = sorted_segments[EntryOf(k)].word_index
              /\ Len(StateWords(k)) = ((k - 1) % page_size) + 1
        /\ \A j, k \in 1..Len(states) :
              j < k => states[j].start_s <= states[k].start_s

\* entries passed out of order, one of them without text between two with
C18_Witness ==
    /\ TimelineBuilt
    /\ segments # sorted_segments
    /\ Len(sorted_segments) = 3
    /\ ~Mapped(2)
    /\ Len(states) = 2

\* the states whose interval contains t
Containing(t) ==
    {k \in 1..Len(states) : states[k].start_s <= t /\ t < states[k].end_s}

FirstContaining(t) == CHOOSE k \in Containing(t) : \A j \in Containing(t) : k <= j

\* C19 as claimed: the frame returned for t is the one of the first state
\* whose interval contains t, and for every t at or beyond the last state's
\* start it is the one of the last state.
C19_Original ==
    frame.made =>
        /\ Containing(frame.t) # {} =>
               frame.frame_rgba
                   = Rendered(states[FirstContaining(frame.t)].full_string)
        /\ frame.t >= Last(states).start_s =>
               frame.frame_rgba = Rendered(Last(states).full_string)

\* C19 as amended: the frame returned for t is the one of the first state
\* whose interval contains t; when no interval contains t it is the one of
\* the last state if t is at or beyond the last state's start, and the
\* empty frame otherwise.
C19_FirstMatchThenLast ==
    frame.made =>
        /\ Containing(frame.t) # {} =>
               frame.frame_rgba
                   = Rendered(states[FirstContaining(frame.t)].full_string)
        /\ (Containing(frame.t) = {} /\ frame.t >= Last(states).start_s) =>
               frame.frame_rgba = Rendered(Last(states).full_string)
        /\ (Containing(frame.t) = {} /\ frame.t < Last(states).start_s) =>
               frame.frame_rgba = EmptyFrame

\* t is the last state's start and still inside the interval of the state
\* before it, which is the one returned
C19_Witness ==
    /\ frame.made
    /\ Len(states) >= 2
    /\ frame.t >= Last(states).start_s
    /\ Cardinality(Containing(frame.t)) >= 2
    /\ frame.frame_rgba = Rendered(states[Len(states) - 1].full_string)
    /\ frame.frame_rgba # Rendered(Last(states).full_string)

\* C20 as claimed: for every page transition the blend factor make_frame
\* uses is 0 at transition - crossfade/2, is 1 at transition + crossfade/2
\* and grows strictly with t across the window.
C20_CrossfadeBlend ==
    frame.made =>
        \A k \in 1..Len(page_transitions) :
            LET trans_t == page_transitions[k]
                half == page_crossfade_duration \div 2
            IN  /\ frame.t = trans_t - half =>
                       frame.blended /\ frame.blend = 0
                /\ frame.t = trans_t + half =>
                       /\ frame.blended
                       /\ frame.blend = page_crossfade_duration
                /\ \A u \in QueryTimes :
                       (InWindow(trans_t, u) /\ InWindow(trans_t, frame.t)
                            /\ u < frame.t) =>
                           make_frame(states, page_transitions, u).blend
                               < frame.blend

\* t lies in the crossfade window of some page transition
InSomeWindow(t) ==
    \E k \in 1..Len(page_transitions) : InWindow(page_transitions[k], t)

\* C21 as claimed: inside a crossfade window make_frame and make_mask blend
\* the state _get_state_at returns 10 ms before the transition (outgoing)
\* with the one it returns 10 ms after it (incoming); outside every window
\* the frame is the one of _get_state_at(t), not blended.
C21_BlendedStatesAreStateAt ==
    frame.made =>
        /\ make_mask(states, page_transitions, frame.t) = frame
        /\ IF InSomeWindow(frame.t)
           THEN /\ frame.blended
                /\ frame.out_frame
                       = _get_state_at(states, frame.trans_t - TransitionProbe)
                /\ frame.in_frame
                       = _get_state_at(states, frame.trans_t + TransitionProbe)
           ELSE /\ ~frame.blended
                /\ frame.frame_rgba = _get_state_at(states, frame.t)

\* the frame of the last state in list order whose interval contains t,
\* the empty frame when there is none
LastContainingFrame(t) ==
    IF Containing(t) = {}
    THEN EmptyFrame
    ELSE Rendered(states[CHOOSE k \in Containing(t) :
                             \A j \in Containing(t) : j <= k].full_string)

\* C21 as amended: inside a crossfade window make_frame and make_mask blend
\* the last state in list order whose interval contains transition - 10 ms
\* (the empty frame if none does) with the last one whose interval contains
\* transition + 10 ms; these are the frames of _get_state_at at those times
\* when exactly one interval contains them.  Outside every window the frame
\* is the one of _get_state_at(t), not blended.
C21_BlendedStatesAreLastMatch ==
    frame.made =>
        /\ make_mask(states, page_transitions, frame.t) = frame
        /\ IF InSomeWindow(frame.t)
           THEN LET before == frame.trans_t - TransitionProbe
                    after == frame.trans_t + TransitionProbe
                IN  /\ frame.blended
                    /\ frame.out_frame = LastContainingFrame(before)
                    /\ frame.in_frame = LastContainingFrame(after)
                    /\ Cardinality(Containing(before)) = 1 =>
                           frame.out_frame = _get_state_at(states, before)
                    /\ Cardinality(Containing(after)) = 1 =>
                           frame.in_frame = _get_state_at(states, after)
           ELSE /\ ~frame.blended
                /\ frame.frame_rgba = _get_state_at(states, frame.t)

\* a crossfade whose incoming state starts 30 ms after the outgoing one:
\* 10 ms after the transition _get_state_at still returns the outgoing one
C21_Witness ==
    /\ frame.made
    /\ frame.blended
    /\ frame.trans_t > 0
    /\ frame.out_frame = _get_state_at(states, frame.trans_t - TransitionProbe)
    /\ frame.out_frame # EmptyFrame
    /\ _get_state_at(states, frame.trans_t + TransitionProbe) = frame.out_frame
    /\ frame.in_frame # frame.out_frame

\* the texts of the word list, one after the other
RECURSIVE WordTexts(_)
WordTexts(k) ==
    IF k = 0 THEN <<>>
    ELSE IF words[k].text = <<>> THEN WordTexts(k - 1)
    ELSE WordTexts(k - 1) \o words[k].text

C23_NoFetchAfterCancel == [][cancel_requested => fetch_log' = fetch_log]_vars

\* C24 as claimed: a video passed to upload_video never has the reply
\* 'rejected', 'timeout' or 'regenerate'; when approval was asked for it,
\* the reply was 'approved' or 'skip'.
C24_UploadOnlyApproved ==
    \A k \in 1..Len(upload_calls) :
        /\ upload_calls[k] \in 1..Len(approvals)
        /\ approvals[upload_calls[k]] \in {"approved", "skip", NoReply}

\* C25: the hard cap (lines 195-199) can change total_duration only when the
\* unit list holds exactly one unit; with two or more units the duration the
\* cap step finds is already at most max_content_duration, and the cap step
\* leaves the unit list as it was.
C25_CapOnlySingleUnit ==
    [][pc = "capping" /\ pc' = "finalized" =>
          /\ ayah_data' = ayah_data
          /\ total_duration' # total_duration => Len(ayah_data) = 1
          /\ Len(ayah_data) >= 2 =>
                 /\ total_duration <= max_content_duration
                 /\ total_duration' = total_duration]_vars

\* the cap step has run on a list of two or more units, after a unit that
\* would have passed the maximum was refused
C25_Witness ==
    /\ pc = "finalized"
    /\ Len(ayah_data) >= 2
    /\ rejected # 0
    /\ uncapped = total_duration

\* C26: for every time t from the start of the first state up to the unit
\* duration, _get_state_at(t) is the picture of a built state and never the
\* empty frame, also when unmapped timing entries lie between mapped ones.
C26_NoEmptyFrameInsideUnit ==
    (/\ frame.made
     /\ states # <<>>
     /\ states[1].start_s <= frame.t
     /\ frame.t < unit_duration)
        => frame.frame_rgba # EmptyFrame

\* video_generator.py 253-257: the page boundaries of the same unit, from
\* the same timing entries, the length of the word list and the duration
UnitPages ==
    compute_page_boundaries(sorted_segments, Len(words), unit_duration,
                            page_size)

\* C27: the page_index of every state equals the page_index of the page of
\* compute_page_boundaries whose word range contains word_index - 1 of the
\* timing entry that produced the state.
C27_StatePageIsBoundaryPage ==
    TimelineBuilt =>
        \A k \in 1..Len(states) :
            \A p \in 1..Len(UnitPages) :
                LET idx == sorted_segments[EntryOf(k)].word_index - 1
                IN  (UnitPages[p].word_start_idx <= idx
                         /\ idx <= UnitPages[p].word_end_idx)
                        => states[k].page_index = UnitPages[p].page_index

C29_ProgressAfterHistory ==
    [][/\ progress' # progress =>
              /\ auto_selected
              /\ generated'
              /\ history' = Append(history, [start_ayah |-> start_ayah,
                                             end_ayah |-> end_ayah])
              /\ progress' = end_ayah
       /\ (cmd_result'.kind = "dict" /\ cmd_result.kind # "dict") =>
              /\ history' # history
              /\ auto_selected => progress' = cmd_result'.end_ayah
              /\ ~auto_selected => progress' = progress
       /\ ~generated' => history' = history /\ progress' = progress]_vars

\* an auto-selected run whose actual end differs from the requested end has
\* returned: the record and the progress carry the actual end
C29_Witness ==
    /\ pc = "done"
    /\ cmd_result.kind = "dict"
    /\ auto_selected
    /\ end_ayah # requested_end
    /\ progress = end_ayah
    /\ Len(history) = 1
    /\ history[1].end_ayah = end_ayah

\* what render_text draws for the arguments and the style of a call when
\* nothing was rendered before it
FirstCallBuffer(call) ==
    Draw(IF call.is_arabic THEN _clean_arabic(call.text) ELSE call.text,
         call.font_size, call.color, call.words_per_line, call.is_arabic,
         call.style)

\* C30: the buffer render_text returns is determined by its arguments
\* (text, font_size, color, max_width, words_per_line, is_arabic) and the
\* style the caller passed: it is the buffer the same call returns when no
\* call went through the shared renderer and its cache before.
C30_RenderIsDeterministic ==
    rendered.made => rendered.buffer = FirstCallBuffer(rendered)

====
